---------------------------- MODULE Spec2Model ----------------------------
(***************************************************************************)
(* A model of scripts/gen_prompt: the JSON repair routine                  *)
(* process_json_string (tools.py) and the batch driver                     *)
(* (gen_prompts_and_rubic.py).                                             *)
(*                                                                         *)
(* Text is a sequence of characters.  A character is a one-character       *)
(* string; the eight full-width / typographic code points the routine      *)
(* rewrites are written by code point name ("U+FF1A" is the full-width     *)
(* colon), since the module is ASCII.                                      *)
(***************************************************************************)
EXTENDS Integers, Sequences, FiniteSets, TLC

VARIABLES
    raw_json_str,   \* the argument of process_json_string
    cleaned_str,    \* tools.py:20-26
    fix_str,        \* tools.py:32-48
    json_data,      \* tools.py:52, the decoded value
    missing,        \* missing_fields / missing_rubic of the raise that happened
    exc,            \* the exception process_json_string left with, or "none"
    stages,         \* the stages executed so far, in order
    pc,             \* position in process_json_string ("idle": not called)
    frames,         \* the interpreter's call depth where process_json_string is called
    \* the batch driver, gen_prompts_and_rubic.py:258-330
    requirement_list,   \* per row: whether subject, sub_subject and requirement are all non-empty
    idx,                \* the loop counter
    index,              \* the row drawn for this round
    retry,              \* chat_gpt's loop counter
    requests,           \* requests sent by the current chat_gpt call (line 60)
    waits,              \* the sleeps of the current chat_gpt call, in order (line 73)
    response_text,      \* what chat_gpt returned
    processed_success,
    processed_failed,
    manual_files,       \* rows whose manual file was written
    prompt_files,       \* rows whose JSON file was written
    slept,              \* seconds slept since the last round ended
    bpc                 \* position in the driver ("idle": not running)

pvars == <<raw_json_str, cleaned_str, fix_str, json_data, missing, exc, stages, pc, frames>>

bvars == <<requirement_list, idx, index, retry, requests, waits, response_text,
           processed_success, processed_failed, manual_files, prompt_files, slept, bpc>>

vars == <<pvars, bvars>>

-----------------------------------------------------------------------------
(* Characters *)
(*                                                                         *)
(* A character is a one-character string when it is printable ASCII or one *)
(* of tab, line feed, carriage return; every other character is written by *)
(* its code point, "U+000C", "U+00E9", "U+FF1A", "U+1F600" (four hex       *)
(* digits, upper case; more above U+FFFF).  The grave accent, which a      *)
(* string of this language cannot hold, is "U+0060".                       *)

BS == "\\"
DQ == "\""
SQ == "'"

\* the characters of code points 32..126, in order (96 by its code point)
AsciiPrintable ==
    <<" ", "!", "\"", "#", "$", "%", "&", "'", "(", ")", "*", "+", ",", "-",
      ".", "/", "0", "1", "2", "3", "4", "5", "6", "7", "8", "9", ":", ";",
      "<", "=", ">", "?", "@", "A", "B", "C", "D", "E", "F", "G", "H", "I",
      "J", "K", "L", "M", "N", "O", "P", "Q", "R", "S", "T", "U", "V", "W",
      "X", "Y", "Z", "[", "\\", "]", "^", "_", "U+0060", "a", "b", "c", "d", "e",
      "f", "g", "h", "i", "j", "k", "l", "m", "n", "o", "p", "q", "r", "s",
      "t", "u", "v", "w", "x", "y", "z", "{", "|", "}", "~">>

HexDigits == <<"0", "1", "2", "3", "4", "5", "6", "7", "8", "9",
               "A", "B", "C", "D", "E", "F">>

\* the hex digits of n, most significant first, at least width of them
RECURSIVE HexText(_, _)
HexText(n, width) ==
    IF n < 16 /\ width <= 1 THEN HexDigits[n + 1]
    ELSE HexText(n \div 16, width - 1) \o HexDigits[(n % 16) + 1]

\* chr(n)
CharOf(n) ==
    IF n >= 32 /\ n <= 126 THEN AsciiPrintable[n - 31]
    ELSE IF n = 9 THEN "\t"
    ELSE IF n = 10 THEN "\n"
    ELSE IF n = 13 THEN "\r"
    ELSE "U+" \o HexText(n, 4)

HexVal(c) == CHOOSE n \in 0..15 : HexDigits[n + 1] = c

\* the number a text of upper-case hex digits writes
RECURSIVE HexNumber(_)
HexNumber(text) ==
    IF Len(text) = 0 THEN 0
    ELSE 16 * HexNumber(SubSeq(text, 1, Len(text) - 1))
         + HexVal(SubSeq(text, Len(text), Len(text)))

AsciiCode ==
    [c \in {AsciiPrintable[k] : k \in 1..Len(AsciiPrintable)} \ {"U+0060"} |->
        31 + CHOOSE k \in 1..Len(AsciiPrintable) : AsciiPrintable[k] = c]

\* ord(c); -1 for "", which stands for no character
CodeOf(c) ==
    IF Len(c) = 0 THEN -1
    ELSE IF Len(c) > 1 THEN HexNumber(SubSeq(c, 3, Len(c)))
    ELSE IF c = "\t" THEN 9
    ELSE IF c = "\n" THEN 10
    ELSE IF c = "\r" THEN 13
    ELSE AsciiCode[c]

\* n lies in one of ranges[lo..hi], ranges <<first, last>> in increasing order
RECURSIVE InRanges(_, _, _, _)
InRanges(n, ranges, lo, hi) ==
    IF lo > hi THEN FALSE
    ELSE LET mid == (lo + hi) \div 2 IN
         IF n < ranges[mid][1] THEN InRanges(n, ranges, lo, mid - 1)
         ELSE IF n > ranges[mid][2] THEN InRanges(n, ranges, mid + 1, hi)
         ELSE TRUE

\* the code point of c lies in one of the ranges
CharIn(c, ranges) == InRanges(CodeOf(c), ranges, 1, Len(ranges))

\* the code points str.strip() removes and the str pattern \s matches
SpaceRanges ==
    <<<<9, 13>>, <<28, 32>>, <<133, 133>>, <<160, 160>>, <<5760, 5760>>,
      <<8192, 8202>>, <<8232, 8233>>, <<8239, 8239>>, <<8287, 8287>>,
      <<12288, 12288>>>>

\* the code points the str pattern \d matches: the decimal digits of Unicode
DigitRanges ==
    <<<<48, 57>>, <<1632, 1641>>, <<1776, 1785>>, <<1984, 1993>>,
      <<2406, 2415>>, <<2534, 2543>>, <<2662, 2671>>, <<2790, 2799>>,
      <<2918, 2927>>, <<3046, 3055>>, <<3174, 3183>>, <<3302, 3311>>,
      <<3430, 3439>>, <<3558, 3567>>, <<3664, 3673>>, <<3792, 3801>>,
      <<3872, 3881>>, <<4160, 4169>>, <<4240, 4249>>, <<6112, 6121>>,
      <<6160, 6169>>, <<6470, 6479>>, <<6608, 6617>>, <<6784, 6793>>,
      <<6800, 6809>>, <<6992, 7001>>, <<7088, 7097>>, <<7232, 7241>>,
      <<7248, 7257>>, <<42528, 42537>>, <<43216, 43225>>, <<43264, 43273>>,
      <<43472, 43481>>, <<43504, 43513>>, <<43600, 43609>>, <<44016, 44025>>,
      <<65296, 65305>>, <<66720, 66729>>, <<68912, 68921>>, <<69734, 69743>>,
      <<69872, 69881>>, <<69942, 69951>>, <<70096, 70105>>, <<70384, 70393>>,
      <<70736, 70745>>, <<70864, 70873>>, <<71248, 71257>>, <<71360, 71369>>,
      <<71472, 71481>>, <<71904, 71913>>, <<72016, 72025>>, <<72784, 72793>>,
      <<73040, 73049>>, <<73120, 73129>>, <<92768, 92777>>, <<92864, 92873>>,
      <<93008, 93017>>, <<120782, 120831>>, <<123200, 123209>>,
      <<123632, 123641>>, <<125264, 125273>>, <<130032, 130041>>>>

\* the code points the str pattern \w matches: the letters and digits of
\* Unicode and the underscore
WordRanges ==
    <<<<48, 57>>, <<65, 90>>, <<95, 95>>, <<97, 122>>, <<170, 170>>,
      <<178, 179>>, <<181, 181>>, <<185, 186>>, <<188, 190>>, <<192, 214>>,
      <<216, 246>>, <<248, 705>>, <<710, 721>>, <<736, 740>>, <<748, 748>>,
      <<750, 750>>, <<880, 884>>, <<886, 887>>, <<890, 893>>, <<895, 895>>,
      <<902, 902>>, <<904, 906>>, <<908, 908>>, <<910, 929>>, <<931, 1013>>,
      <<1015, 1153>>, <<1162, 1327>>, <<1329, 1366>>, <<1369, 1369>>,
      <<1376, 1416>>, <<1488, 1514>>, <<1519, 1522>>, <<1568, 1610>>,
      <<1632, 1641>>, <<1646, 1647>>, <<1649, 1747>>, <<1749, 1749>>,
      <<1765, 1766>>, <<1774, 1788>>, <<1791, 1791>>, <<1808, 1808>>,
      <<1810, 1839>>, <<1869, 1957>>, <<1969, 1969>>, <<1984, 2026>>,
      <<2036, 2037>>, <<2042, 2042>>, <<2048, 2069>>, <<2074, 2074>>,
      <<2084, 2084>>, <<2088, 2088>>, <<2112, 2136>>, <<2144, 2154>>,
      <<2160, 2183>>, <<2185, 2190>>, <<2208, 2249>>, <<2308, 2361>>,
      <<2365, 2365>>, <<2384, 2384>>, <<2392, 2401>>, <<2406, 2415>>,
      <<2417, 2432>>, <<2437, 2444>>, <<2447, 2448>>, <<2451, 2472>>,
      <<2474, 2480>>, <<2482, 2482>>, <<2486, 2489>>, <<2493, 2493>>,
      <<2510, 2510>>, <<2524, 2525>>, <<2527, 2529>>, <<2534, 2545>>,
      <<2548, 2553>>, <<2556, 2556>>, <<2565, 2570>>, <<2575, 2576>>,
      <<2579, 2600>>, <<2602, 2608>>, <<2610, 2611>>, <<2613, 2614>>,
      <<2616, 2617>>, <<2649, 2652>>, <<2654, 2654>>, <<2662, 2671>>,
      <<2674, 2676>>, <<2693, 2701>>, <<2703, 2705>>, <<2707, 2728>>,
      <<2730, 2736>>, <<2738, 2739>>, <<2741, 2745>>, <<2749, 2749>>,
      <<2768, 2768>>, <<2784, 2785>>, <<2790, 2799>>, <<2809, 2809>>,
      <<2821, 2828>>, <<2831, 2832>>, <<2835, 2856>>, <<2858, 2864>>,
      <<2866, 2867>>, <<2869, 2873>>, <<2877, 2877>>, <<2908, 2909>>,
      <<2911, 2913>>, <<2918, 2927>>, <<2929, 2935>>, <<2947, 2947>>,
      <<2949, 2954>>, <<2958, 2960>>, <<2962, 2965>>, <<2969, 2970>>,
      <<2972, 2972>>, <<2974, 2975>>, <<2979, 2980>>, <<2984, 2986>>,
      <<2990, 3001>>, <<3024, 3024>>, <<3046, 3058>>, <<3077, 3084>>,
      <<3086, 3088>>, <<3090, 3112>>, <<3114, 3129>>, <<3133, 3133>>,
      <<3160, 3162>>, <<3165, 3165>>, <<3168, 3169>>, <<3174, 3183>>,
      <<3192, 3198>>, <<3200, 3200>>, <<3205, 3212>>, <<3214, 3216>>,
      <<3218, 3240>>, <<3242, 3251>>, <<3253, 3257>>, <<3261, 3261>>,
      <<3293, 3294>>, <<3296, 3297>>, <<3302, 3311>>, <<3313, 3314>>,
      <<3332, 3340>>, <<3342, 3344>>, <<3346, 3386>>, <<3389, 3389>>,
      <<3406, 3406>>, <<3412, 3414>>, <<3416, 3425>>, <<3430, 3448>>,
      <<3450, 3455>>, <<3461, 3478>>, <<3482, 3505>>, <<3507, 3515>>,
      <<3517, 3517>>, <<3520, 3526>>, <<3558, 3567>>, <<3585, 3632>>,
      <<3634, 3635>>, <<3648, 3654>>, <<3664, 3673>>, <<3713, 3714>>,
      <<3716, 3716>>, <<3718, 3722>>, <<3724, 3747>>, <<3749, 3749>>,
      <<3751, 3760>>, <<3762, 3763>>, <<3773, 3773>>, <<3776, 3780>>,
      <<3782, 3782>>, <<3792, 3801>>, <<3804, 3807>>, <<3840, 3840>>,
      <<3872, 3891>>, <<3904, 3911>>, <<3913, 3948>>, <<3976, 3980>>,
      <<4096, 4138>>, <<4159, 4169>>, <<4176, 4181>>, <<4186, 4189>>,
      <<4193, 4193>>, <<4197, 4198>>, <<4206, 4208>>, <<4213, 4225>>,
      <<4238, 4238>>, <<4240, 4249>>, <<4256, 4293>>, <<4295, 4295>>,
      <<4301, 4301>>, <<4304, 4346>>, <<4348, 4680>>, <<4682, 4685>>,
      <<4688, 4694>>, <<4696, 4696>>, <<4698, 4701>>, <<4704, 4744>>,
      <<4746, 4749>>, <<4752, 4784>>, <<4786, 4789>>, <<4792, 4798>>,
      <<4800, 4800>>, <<4802, 4805>>, <<4808, 4822>>, <<4824, 4880>>,
      <<4882, 4885>>, <<4888, 4954>>, <<4969, 4988>>, <<4992, 5007>>,
      <<5024, 5109>>, <<5112, 5117>>, <<5121, 5740>>, <<5743, 5759>>,
      <<5761, 5786>>, <<5792, 5866>>, <<5870, 5880>>, <<5888, 5905>>,
      <<5919, 5937>>, <<5952, 5969>>, <<5984, 5996>>, <<5998, 6000>>,
      <<6016, 6067>>, <<6103, 6103>>, <<6108, 6108>>, <<6112, 6121>>,
      <<6128, 6137>>, <<6160, 6169>>, <<6176, 6264>>, <<6272, 6276>>,
      <<6279, 6312>>, <<6314, 6314>>, <<6320, 6389>>, <<6400, 6430>>,
      <<6470, 6509>>, <<6512, 6516>>, <<6528, 6571>>, <<6576, 6601>>,
      <<6608, 6618>>, <<6656, 6678>>, <<6688, 6740>>, <<6784, 6793>>,
      <<6800, 6809>>, <<6823, 6823>>, <<6917, 6963>>, <<6981, 6988>>,
      <<6992, 7001>>, <<7043, 7072>>, <<7086, 7141>>, <<7168, 7203>>,
      <<7232, 7241>>, <<7245, 7293>>, <<7296, 7304>>, <<7312, 7354>>,
      <<7357, 7359>>, <<7401, 7404>>, <<7406, 7411>>, <<7413, 7414>>,
      <<7418, 7418>>, <<7424, 7615>>, <<7680, 7957>>, <<7960, 7965>>,
      <<7968, 8005>>, <<8008, 8013>>, <<8016, 8023>>, <<8025, 8025>>,
      <<8027, 8027>>, <<8029, 8029>>, <<8031, 8061>>, <<8064, 8116>>,
      <<8118, 8124>>, <<8126, 8126>>, <<8130, 8132>>, <<8134, 8140>>,
      <<8144, 8147>>, <<8150, 8155>>, <<8160, 8172>>, <<8178, 8180>>,
      <<8182, 8188>>, <<8304, 8305>>, <<8308, 8313>>, <<8319, 8329>>,
      <<8336, 8348>>, <<8450, 8450>>, <<8455, 8455>>, <<8458, 8467>>,
      <<8469, 8469>>, <<8473, 8477>>, <<8484, 8484>>, <<8486, 8486>>,
      <<8488, 8488>>, <<8490, 8493>>, <<8495, 8505>>, <<8508, 8511>>,
      <<8517, 8521>>, <<8526, 8526>>, <<8528, 8585>>, <<9312, 9371>>,
      <<9450, 9471>>, <<10102, 10131>>, <<11264, 11492>>, <<11499, 11502>>,
      <<11506, 11507>>, <<11517, 11517>>, <<11520, 11557>>, <<11559, 11559>>,
      <<11565, 11565>>, <<11568, 11623>>, <<11631, 11631>>, <<11648, 11670>>,
      <<11680, 11686>>, <<11688, 11694>>, <<11696, 11702>>, <<11704, 11710>>,
      <<11712, 11718>>, <<11720, 11726>>, <<11728, 11734>>, <<11736, 11742>>,
      <<11823, 11823>>, <<12293, 12295>>, <<12321, 12329>>, <<12337, 12341>>,
      <<12344, 12348>>, <<12353, 12438>>, <<12445, 12447>>, <<12449, 12538>>,
      <<12540, 12543>>, <<12549, 12591>>, <<12593, 12686>>, <<12690, 12693>>,
      <<12704, 12735>>, <<12784, 12799>>, <<12832, 12841>>, <<12872, 12879>>,
      <<12881, 12895>>, <<12928, 12937>>, <<12977, 12991>>, <<13312, 19903>>,
      <<19968, 42124>>, <<42192, 42237>>, <<42240, 42508>>, <<42512, 42539>>,
      <<42560, 42606>>, <<42623, 42653>>, <<42656, 42735>>, <<42775, 42783>>,
      <<42786, 42888>>, <<42891, 42954>>, <<42960, 42961>>, <<42963, 42963>>,
      <<42965, 42969>>, <<42994, 43009>>, <<43011, 43013>>, <<43015, 43018>>,
      <<43020, 43042>>, <<43056, 43061>>, <<43072, 43123>>, <<43138, 43187>>,
      <<43216, 43225>>, <<43250, 43255>>, <<43259, 43259>>, <<43261, 43262>>,
      <<43264, 43301>>, <<43312, 43334>>, <<43360, 43388>>, <<43396, 43442>>,
      <<43471, 43481>>, <<43488, 43492>>, <<43494, 43518>>, <<43520, 43560>>,
      <<43584, 43586>>, <<43588, 43595>>, <<43600, 43609>>, <<43616, 43638>>,
      <<43642, 43642>>, <<43646, 43695>>, <<43697, 43697>>, <<43701, 43702>>,
      <<43705, 43709>>, <<43712, 43712>>, <<43714, 43714>>, <<43739, 43741>>,
      <<43744, 43754>>, <<43762, 43764>>, <<43777, 43782>>, <<43785, 43790>>,
      <<43793, 43798>>, <<43808, 43814>>, <<43816, 43822>>, <<43824, 43866>>,
      <<43868, 43881>>, <<43888, 44002>>, <<44016, 44025>>, <<44032, 55203>>,
      <<55216, 55238>>, <<55243, 55291>>, <<63744, 64109>>, <<64112, 64217>>,
      <<64256, 64262>>, <<64275, 64279>>, <<64285, 64285>>, <<64287, 64296>>,
      <<64298, 64310>>, <<64312, 64316>>, <<64318, 64318>>, <<64320, 64321>>,
      <<64323, 64324>>, <<64326, 64433>>, <<64467, 64829>>, <<64848, 64911>>,
      <<64914, 64967>>, <<65008, 65019>>, <<65136, 65140>>, <<65142, 65276>>,
      <<65296, 65305>>, <<65313, 65338>>, <<65345, 65370>>, <<65382, 65470>>,
      <<65474, 65479>>, <<65482, 65487>>, <<65490, 65495>>, <<65498, 65500>>,
      <<65536, 65547>>, <<65549, 65574>>, <<65576, 65594>>, <<65596, 65597>>,
      <<65599, 65613>>, <<65616, 65629>>, <<65664, 65786>>, <<65799, 65843>>,
      <<65856, 65912>>, <<65930, 65931>>, <<66176, 66204>>, <<66208, 66256>>,
      <<66273, 66299>>, <<66304, 66339>>, <<66349, 66378>>, <<66384, 66421>>,
      <<66432, 66461>>, <<66464, 66499>>, <<66504, 66511>>, <<66513, 66517>>,
      <<66560, 66717>>, <<66720, 66729>>, <<66736, 66771>>, <<66776, 66811>>,
      <<66816, 66855>>, <<66864, 66915>>, <<66928, 66938>>, <<66940, 66954>>,
      <<66956, 66962>>, <<66964, 66965>>, <<66967, 66977>>, <<66979, 66993>>,
      <<66995, 67001>>, <<67003, 67004>>, <<67072, 67382>>, <<67392, 67413>>,
      <<67424, 67431>>, <<67456, 67461>>, <<67463, 67504>>, <<67506, 67514>>,
      <<67584, 67589>>, <<67592, 67592>>, <<67594, 67637>>, <<67639, 67640>>,
      <<67644, 67644>>, <<67647, 67669>>, <<67672, 67702>>, <<67705, 67742>>,
      <<67751, 67759>>, <<67808, 67826>>, <<67828, 67829>>, <<67835, 67867>>,
      <<67872, 67897>>, <<67968, 68023>>, <<68028, 68047>>, <<68050, 68096>>,
      <<68112, 68115>>, <<68117, 68119>>, <<68121, 68149>>, <<68160, 68168>>,
      <<68192, 68222>>, <<68224, 68255>>, <<68288, 68295>>, <<68297, 68324>>,
      <<68331, 68335>>, <<68352, 68405>>, <<68416, 68437>>, <<68440, 68466>>,
      <<68472, 68497>>, <<68521, 68527>>, <<68608, 68680>>, <<68736, 68786>>,
      <<68800, 68850>>, <<68858, 68899>>, <<68912, 68921>>, <<69216, 69246>>,
      <<69248, 69289>>, <<69296, 69297>>, <<69376, 69415>>, <<69424, 69445>>,
      <<69457, 69460>>, <<69488, 69505>>, <<69552, 69579>>, <<69600, 69622>>,
      <<69635, 69687>>, <<69714, 69743>>, <<69745, 69746>>, <<69749, 69749>>,
      <<69763, 69807>>, <<69840, 69864>>, <<69872, 69881>>, <<69891, 69926>>,
      <<69942, 69951>>, <<69956, 69956>>, <<69959, 69959>>, <<69968, 70002>>,
      <<70006, 70006>>, <<70019, 70066>>, <<70081, 70084>>, <<70096, 70106>>,
      <<70108, 70108>>, <<70113, 70132>>, <<70144, 70161>>, <<70163, 70187>>,
      <<70272, 70278>>, <<70280, 70280>>, <<70282, 70285>>, <<70287, 70301>>,
      <<70303, 70312>>, <<70320, 70366>>, <<70384, 70393>>, <<70405, 70412>>,
      <<70415, 70416>>, <<70419, 70440>>, <<70442, 70448>>, <<70450, 70451>>,
      <<70453, 70457>>, <<70461, 70461>>, <<70480, 70480>>, <<70493, 70497>>,
      <<70656, 70708>>, <<70727, 70730>>, <<70736, 70745>>, <<70751, 70753>>,
      <<70784, 70831>>, <<70852, 70853>>, <<70855, 70855>>, <<70864, 70873>>,
      <<71040, 71086>>, <<71128, 71131>>, <<71168, 71215>>, <<71236, 71236>>,
      <<71248, 71257>>, <<71296, 71338>>, <<71352, 71352>>, <<71360, 71369>>,
      <<71424, 71450>>, <<71472, 71483>>, <<71488, 71494>>, <<71680, 71723>>,
      <<71840, 71922>>, <<71935, 71942>>, <<71945, 71945>>, <<71948, 71955>>,
      <<71957, 71958>>, <<71960, 71983>>, <<71999, 71999>>, <<72001, 72001>>,
      <<72016, 72025>>, <<72096, 72103>>, <<72106, 72144>>, <<72161, 72161>>,
      <<72163, 72163>>, <<72192, 72192>>, <<72203, 72242>>, <<72250, 72250>>,
      <<72272, 72272>>, <<72284, 72329>>, <<72349, 72349>>, <<72368, 72440>>,
      <<72704, 72712>>, <<72714, 72750>>, <<72768, 72768>>, <<72784, 72812>>,
      <<72818, 72847>>, <<72960, 72966>>, <<72968, 72969>>, <<72971, 73008>>,
      <<73030, 73030>>, <<73040, 73049>>, <<73056, 73061>>, <<73063, 73064>>,
      <<73066, 73097>>, <<73112, 73112>>, <<73120, 73129>>, <<73440, 73458>>,
      <<73648, 73648>>, <<73664, 73684>>, <<73728, 74649>>, <<74752, 74862>>,
      <<74880, 75075>>, <<77712, 77808>>, <<77824, 78894>>, <<82944, 83526>>,
      <<92160, 92728>>, <<92736, 92766>>, <<92768, 92777>>, <<92784, 92862>>,
      <<92864, 92873>>, <<92880, 92909>>, <<92928, 92975>>, <<92992, 92995>>,
      <<93008, 93017>>, <<93019, 93025>>, <<93027, 93047>>, <<93053, 93071>>,
      <<93760, 93846>>, <<93952, 94026>>, <<94032, 94032>>, <<94099, 94111>>,
      <<94176, 94177>>, <<94179, 94179>>, <<94208, 100343>>,
      <<100352, 101589>>, <<101632, 101640>>, <<110576, 110579>>,
      <<110581, 110587>>, <<110589, 110590>>, <<110592, 110882>>,
      <<110928, 110930>>, <<110948, 110951>>, <<110960, 111355>>,
      <<113664, 113770>>, <<113776, 113788>>, <<113792, 113800>>,
      <<113808, 113817>>, <<119520, 119539>>, <<119648, 119672>>,
      <<119808, 119892>>, <<119894, 119964>>, <<119966, 119967>>,
      <<119970, 119970>>, <<119973, 119974>>, <<119977, 119980>>,
      <<119982, 119993>>, <<119995, 119995>>, <<119997, 120003>>,
      <<120005, 120069>>, <<120071, 120074>>, <<120077, 120084>>,
      <<120086, 120092>>, <<120094, 120121>>, <<120123, 120126>>,
      <<120128, 120132>>, <<120134, 120134>>, <<120138, 120144>>,
      <<120146, 120485>>, <<120488, 120512>>, <<120514, 120538>>,
      <<120540, 120570>>, <<120572, 120596>>, <<120598, 120628>>,
      <<120630, 120654>>, <<120656, 120686>>, <<120688, 120712>>,
      <<120714, 120744>>, <<120746, 120770>>, <<120772, 120779>>,
      <<120782, 120831>>, <<122624, 122654>>, <<123136, 123180>>,
      <<123191, 123197>>, <<123200, 123209>>, <<123214, 123214>>,
      <<123536, 123565>>, <<123584, 123627>>, <<123632, 123641>>,
      <<124896, 124902>>, <<124904, 124907>>, <<124909, 124910>>,
      <<124912, 124926>>, <<124928, 125124>>, <<125127, 125135>>,
      <<125184, 125251>>, <<125259, 125259>>, <<125264, 125273>>,
      <<126065, 126123>>, <<126125, 126127>>, <<126129, 126132>>,
      <<126209, 126253>>, <<126255, 126269>>, <<126464, 126467>>,
      <<126469, 126495>>, <<126497, 126498>>, <<126500, 126500>>,
      <<126503, 126503>>, <<126505, 126514>>, <<126516, 126519>>,
      <<126521, 126521>>, <<126523, 126523>>, <<126530, 126530>>,
      <<126535, 126535>>, <<126537, 126537>>, <<126539, 126539>>,
      <<126541, 126543>>, <<126545, 126546>>, <<126548, 126548>>,
      <<126551, 126551>>, <<126553, 126553>>, <<126555, 126555>>,
      <<126557, 126557>>, <<126559, 126559>>, <<126561, 126562>>,
      <<126564, 126564>>, <<126567, 126570>>, <<126572, 126578>>,
      <<126580, 126583>>, <<126585, 126588>>, <<126590, 126590>>,
      <<126592, 126601>>, <<126603, 126619>>, <<126625, 126627>>,
      <<126629, 126633>>, <<126635, 126651>>, <<127232, 127244>>,
      <<130032, 130041>>, <<131072, 173791>>, <<173824, 177976>>,
      <<177984, 178205>>, <<178208, 183969>>, <<183984, 191456>>,
      <<194560, 195101>>, <<196608, 201546>>>>

\* str.strip() and the regex class \s
IsSpace(c) == CharIn(c, SpaceRanges)

\* the regex class \d
IsDigit(c) == CharIn(c, DigitRanges)

\* the regex class \w
IsWord(c) == CharIn(c, WordRanges)

-----------------------------------------------------------------------------
(* Runs of characters of one class: what \s* and \w+ match, what str.strip *)
(* removes, and the whitespace and digits of the JSON decoder              *)

\* json.decoder.WHITESPACE
IsJsonSpace(c) == c \in {" ", "\t", "\n", "\r"}

\* the decoder's digits are the ASCII ones
IsJsonDigit(c) == c \in {"0", "1", "2", "3", "4", "5", "6", "7", "8", "9"}

\* in is the text's characters marked as in a class or not: the index of the
\* first character at or after i that is not in the class
SkipRun(in, i) ==
    IF i > Len(in) THEN i
    ELSE CHOOSE j \in i..(Len(in) + 1) :
            /\ j > Len(in) \/ ~in[j]
            /\ \A k \in i..(j - 1) : in[k]

\* the index of the last character at or before i that is not in the class (0: none)
SkipRunBack(in, i) ==
    IF i < 1 THEN i
    ELSE i - (CHOOSE d \in 0..i :
                /\ d = i \/ ~in[i - d]
                /\ \A k \in (i - d + 1)..i : in[k])

\* the index of the first character at or after i that is not \s
SkipSpace(s, i) == SkipRun([k \in 1..Len(s) |-> IsSpace(s[k])], i)

\* the index of the last character at or before i that is not \s (0: none)
SkipSpaceBack(s, i) == SkipRunBack([k \in 1..Len(s) |-> IsSpace(s[k])], i)

-----------------------------------------------------------------------------
(* Step 1: TextNormalizer, tools.py:20-26 *)

LStrip(s) == SubSeq(s, SkipSpace(s, 1), Len(s))

RStrip(s) == SubSeq(s, 1, SkipSpaceBack(s, Len(s)))

Strip(s) == RStrip(LStrip(s))

\* cleaned_str[1:-1]
DropEnds(s) == SubSeq(s, 2, Len(s) - 1)

StripQuotes(s) ==
    IF s # <<>> /\ s[1] = DQ /\ s[Len(s)] = DQ THEN DropEnds(s) ELSE s

\* Normalize without line 26: the text inside the quotes is not trimmed
Normalize_NoSecondStrip(s) == StripQuotes(Strip(s))

Normalize(s) == Strip(StripQuotes(Strip(s)))

-----------------------------------------------------------------------------
(* Substitution passes.                                                    *)
(*                                                                         *)
(* str.replace and re.sub scan left to right and replace the leftmost,     *)
(* non-overlapping matches.  No two matches of any pattern used here can   *)
(* overlap (each pattern starts with a character that occurs nowhere else  *)
(* in it), so the matches are exactly the positions where the pattern      *)
(* matches, and a pass is the concatenation, over the positions of the     *)
(* text, of what each position turns into.                                 *)

MatchAt(s, i, pat) ==
    /\ i >= 1
    /\ i + Len(pat) - 1 <= Len(s)
    /\ \A k \in 1..Len(pat) : s[i + k - 1] = pat[k]

\* pieces[lo] \o ... \o pieces[hi]
RECURSIVE Concat(_, _, _)
Concat(pieces, lo, hi) ==
    IF lo > hi THEN <<>>
    ELSE IF lo = hi THEN pieces[lo]
    ELSE LET mid == (lo + hi) \div 2 IN
         Concat(pieces, lo, mid) \o Concat(pieces, mid + 1, hi)

Flatten(pieces) == Concat(pieces, 1, Len(pieces))

\* the index of the first character at or after i that is not \w
SkipWord(s, i) == SkipRun([k \in 1..Len(s) |-> IsWord(s[k])], i)

\* the index of the last character at or before i that is not \w (0: none)
SkipWordBack(s, i) == SkipRunBack([k \in 1..Len(s) |-> IsWord(s[k])], i)

CharAt(s, i) == IF i >= 1 /\ i <= Len(s) THEN s[i] ELSE ""

-----------------------------------------------------------------------------
(* Step 2: EscapeRepairer, tools.py:32-39 *)

\* str.replace(pat, rep), for a pattern no two occurrences of which overlap
Replace(s, pat, rep) ==
    Flatten([i \in 1..Len(s) |->
        IF MatchAt(s, i, pat) THEN rep
        ELSE IF \E d \in 1..(Len(pat) - 1) : MatchAt(s, i - d, pat) THEN <<>>
        ELSE <<s[i]>>])

\* line 34
CollapseEscapes(s) ==
    Replace(Replace(s, <<BS, BS, "n">>, <<BS, "n">>), <<BS, BS, "t">>, <<BS, "t">>)

\* line 36: re.sub(r'\\(\d)', r'\\n\1', s)
FixBackslashDigit(s) ==
    Flatten([i \in 1..Len(s) |->
        IF s[i] = BS /\ IsDigit(CharAt(s, i + 1)) THEN <<BS, "n">> ELSE <<s[i]>>])

\* lines 38-39
FullWidthChar(c) ==
    CASE c = "U+FF1A" -> ":"
      [] c = "U+FF0C" -> ","
      [] c = "U+201D" -> DQ
      [] c = "U+201C" -> DQ
      [] c = "U+FF1B" -> ";"
      [] c = "U+3002" -> "."
      [] c = "U+FF08" -> "("
      [] c = "U+FF09" -> ")"
      [] OTHER -> c

ReplaceFullWidth(s) == [k \in 1..Len(s) |-> FullWidthChar(s[k])]

EscapeRepair(s) == ReplaceFullWidth(FixBackslashDigit(CollapseEscapes(s)))

-----------------------------------------------------------------------------
(* Step 3: StructuralRepairer, tools.py:41-48 *)

\* r',\s*<close>' matches at i
TrailingCommaAt(s, i, close) ==
    CharAt(s, i) = "," /\ CharAt(s, SkipSpace(s, i + 1)) = close

\* lines 43, 44: re.sub(r',\s*<close>', '<close>', s): the comma and the
\* whitespace of each match go
RemoveBefore(s, close) ==
    Flatten([i \in 1..Len(s) |->
        IF TrailingCommaAt(s, i, close) THEN <<>>
        ELSE IF IsSpace(s[i]) /\ TrailingCommaAt(s, SkipSpaceBack(s, i), close) THEN <<>>
        ELSE <<s[i]>>])

\* the pass of line 43 alone, without the pass of line 44
RemoveTrailingCommas_BraceOnly(s) == RemoveBefore(s, "}")

RemoveTrailingCommas(s) == RemoveBefore(RemoveBefore(s, "}"), "]")

\* the pattern with its first class narrowed to the opening brace
BareKeyAt_AfterBraceOnly(s, j) ==
    /\ IsWord(CharAt(s, j))
    /\ ~IsWord(CharAt(s, j - 1))
    /\ CharAt(s, SkipSpaceBack(s, j - 1)) = "{"
    /\ CharAt(s, SkipSpace(s, SkipWord(s, j))) = ":"

\* r'([{,]\s*)(\w+)(\s*:)' matches with its \w+ being the word run that starts at j
BareKeyAt(s, j) ==
    /\ IsWord(CharAt(s, j))
    /\ ~IsWord(CharAt(s, j - 1))
    /\ CharAt(s, SkipSpaceBack(s, j - 1)) \in {"{", ","}
    /\ CharAt(s, SkipSpace(s, SkipWord(s, j))) = ":"

\* line 46: re.sub(r'([{,]\s*)(\w+)(\s*:)', r'\1"\2"\3', s): a quote goes before
\* the first and after the last character of each match's word run
QuoteKeys(s) ==
    Flatten([i \in 1..Len(s) |->
        (IF BareKeyAt(s, i) THEN <<DQ>> ELSE <<>>)
        \o <<s[i]>>
        \o (IF IsWord(s[i]) /\ ~IsWord(CharAt(s, i + 1))
               /\ BareKeyAt(s, SkipWordBack(s, i) + 1)
            THEN <<DQ>> ELSE <<>>)])

\* line 48: re.sub(r'(?<!\\)\'', '"', s)
FixSingleQuotes(s) ==
    [k \in 1..Len(s) |->
        IF s[k] = SQ /\ ~(k > 1 /\ s[k - 1] = BS) THEN DQ ELSE s[k]]

StructuralRepair(s) == FixSingleQuotes(QuoteKeys(RemoveTrailingCommas(s)))

-----------------------------------------------------------------------------
(* Step 4: Parser, tools.py:51-52: json.loads                               *)
(*                                                                         *)
(* A decoded value is a record [type, val]:                                *)
(*   "dict"  val = the items in insertion order, each [k |-> text, v]      *)
(*   "list"  val = the elements                                            *)
(*   "str"   val = the decoded text                                        *)
(*   "int", "float"  val = the literal's text                              *)
(*   "bool"  val = <<"true">> or <<"false">>;  "NoneType"  val = <<>>      *)
(* A parse result is [ok, val, pos, err]: pos is the index after the value, *)
(* err the exception that ended the decoding when ok is false.             *)
(*                                                                         *)
(* Line 52 can end in three exceptions.  json.JSONDecodeError is the text  *)
(* not being JSON.  The other two come from the interpreter: int() refuses *)
(* a literal of more than sys.int_info.default_max_str_digits digits with  *)
(* ValueError, and the decoder runs into sys.getrecursionlimit() with      *)
(* RecursionError: the scanner enters one recursive call per open object   *)
(* or array, and constructing a json.JSONDecodeError takes calls of its    *)
(* own, at the place where the error is found.  Line 53 catches the first  *)
(* only.                                                                   *)

\* sys.int_info.default_max_str_digits
MaxStrDigits == 4300

\* sys.getrecursionlimit()
RecursionLimit == 1000

\* the calls between the caller and the scanner's first value:
\* process_json_string, json.loads, JSONDecoder.decode, raw_decode, scan_once
ScannerFrames == 5

\* the deepest nesting of objects and arrays the scanner can enter
MaxNesting == RecursionLimit - frames - ScannerFrames

\* the calls that constructing a json.JSONDecodeError takes
ErrorFrames == 3

\* the call of parse_constant that NaN, Infinity and -Infinity take
ConstantFrames == 1

\* where a decode error is raised, counted from the scanner's first value:
\* json.loads ("Unexpected UTF-8 BOM"), JSONDecoder.decode ("Extra data"),
\* raw_decode ("Expecting value"), or the scanner itself, inside depth
\* objects and arrays
InLoads == -3
InDecode == -2
InRawDecode == -1
InScanner(depth) == depth

SkipJsonSpace(s, i) == SkipRun([k \in 1..Len(s) |-> IsJsonSpace(s[k])], i)

SkipDigits(s, i) == SkipRun([k \in 1..Len(s) |-> IsJsonDigit(s[k])], i)

NoValue == [type |-> "NoneType", val |-> <<>>]
\* the decoding left with exception e at index i
Raises(e, i) == [ok |-> FALSE, val |-> NoValue, pos |-> i, err |-> e]
\* a decode error found at index i, raised at the given level
Fail(i, level) ==
    IF level + ErrorFrames > MaxNesting THEN Raises("RecursionError", i)
    ELSE Raises("json.JSONDecodeError", i)
Ok(v, i) == [ok |-> TRUE, val |-> v, pos |-> i, err |-> "none"]

\* NaN, Infinity or -Infinity read at index i inside depth objects and arrays:
\* the scanner hands the literal to parse_constant
Constant(text, i, depth) ==
    IF depth + ConstantFrames > MaxNesting THEN Raises("RecursionError", i)
    ELSE Ok([type |-> "float", val |-> text], i + Len(text))

IsHex(c) == IsJsonDigit(c) \/ c \in {"a", "b", "c", "d", "e", "f", "A", "B", "C", "D", "E", "F"}

HexUpper(c) ==
    CASE c = "a" -> "A" [] c = "b" -> "B" [] c = "c" -> "C"
      [] c = "d" -> "D" [] c = "e" -> "E" [] c = "f" -> "F" [] OTHER -> c

\* the character a backslash escape stands for; "" when the escape is invalid
Unescape(e) ==
    CASE e = DQ -> DQ
      [] e = BS -> BS
      [] e = "/" -> "/"
      [] e = "b" -> "U+0008"
      [] e = "f" -> "U+000C"
      [] e = "n" -> "\n"
      [] e = "r" -> "\r"
      [] e = "t" -> "\t"
      [] OTHER -> ""

\* the index of the last character at or before i that is not a backslash
SkipBackslashBack(s, i) == SkipRunBack([k \in 1..Len(s) |-> s[k] = BS], i)

\* In a string literal whose opening quote is s[i - 1], scanstring consumes a
\* backslash together with the character after it, so the character at p is
\* consumed as the second of such a pair exactly when an odd number of
\* backslashes stands immediately before it.
IsEscaped(s, p) == (p - 1 - SkipBackslashBack(s, p - 1)) % 2 = 1

IsEscapeStart(s, p) == s[p] = BS /\ ~IsEscaped(s, p)

\* one of the four hex digits of a \uXXXX escape
IsUnicodeDigit(s, p) ==
    \E d \in 1..4 : CharAt(s, p - d) = "u" /\ IsEscaped(s, p - d)

ValidUnicode(s, p) == \A k \in 1..4 : IsHex(CharAt(s, p + k))

\* the number written by the four hex digits after the u at p
Hex4(s, p) ==
    4096 * HexVal(HexUpper(s[p + 1])) + 256 * HexVal(HexUpper(s[p + 2]))
        + 16 * HexVal(HexUpper(s[p + 3])) + HexVal(HexUpper(s[p + 4]))

IsHighSurrogate(n) == n >= 55296 /\ n <= 56319

IsLowSurrogate(n) == n >= 56320 /\ n <= 57343

\* the u at p starts a valid \uXXXX escape
IsUnicodeEscape(s, p) == CharAt(s, p) = "u" /\ IsEscaped(s, p) /\ ValidUnicode(s, p)

\* the escape at p is a high surrogate and the escape right after it a low one
JoinsNext(s, p) ==
    /\ IsHighSurrogate(Hex4(s, p))
    /\ CharAt(s, p + 5) = BS
    /\ IsUnicodeEscape(s, p + 6)
    /\ IsLowSurrogate(Hex4(s, p + 6))

\* the escape at p is the low half of a pair that the escape before it joined
JoinedLow(s, i, p) ==
    /\ p - 6 >= i
    /\ IsUnicodeEscape(s, p - 6)
    /\ JoinsNext(s, p - 6)

\* the character of the valid \uXXXX escape whose u is at p
CodePoint(s, p) ==
    IF JoinsNext(s, p)
    THEN CharOf(65536 + 1024 * (Hex4(s, p) - 55296) + (Hex4(s, p + 6) - 56320))
    ELSE CharOf(Hex4(s, p))

\* the characters a strict string literal may not hold unescaped
IsControl(c) == CodeOf(c) >= 0 /\ CodeOf(c) <= 31

IsClosingQuote(s, p) == s[p] = DQ /\ ~IsEscaped(s, p)

\* json.decoder.scanstring (strict): s[i] is the character after the opening quote.
ScanString(s, i, acc, depth) ==
    IF ~\E j \in i..Len(s) : IsClosingQuote(s, j) THEN Fail(Len(s) + 1, InScanner(depth))
    ELSE LET end == CHOOSE j \in i..Len(s) :
                        IsClosingQuote(s, j) /\ \A k \in i..(j - 1) : ~IsClosingQuote(s, k)
             bad(p) ==
                 IF IsEscaped(s, p)
                 THEN IF s[p] = "u" THEN ~ValidUnicode(s, p) ELSE Unescape(s[p]) = ""
                 ELSE IsControl(s[p])
             piece(p) ==
                 IF IsEscaped(s, p)
                 THEN IF s[p] # "u" THEN <<Unescape(s[p])>>
                      ELSE IF JoinedLow(s, i, p) THEN <<>>
                      ELSE <<CodePoint(s, p)>>
                 ELSE IF s[p] = BS \/ IsUnicodeDigit(s, p) THEN <<>>
                 ELSE <<s[p]>>
         IN IF \E p \in i..(end - 1) : bad(p) THEN Fail(i, InScanner(depth))
            ELSE Ok([type |-> "str",
                     val |-> acc \o Flatten([q \in 1..(end - i) |-> piece(i + q - 1)])],
                    end + 1)

\* json.scanner NUMBER_RE: (-?(?:0|[1-9]\d*))(\.\d+)?([eE][-+]?\d+)?
IntEnd(s, i) ==
    LET d == IF i <= Len(s) /\ s[i] = "-" THEN i + 1 ELSE i IN
    IF d > Len(s) \/ ~IsJsonDigit(s[d]) THEN i
    ELSE IF s[d] = "0" THEN d + 1
    ELSE SkipDigits(s, d)

FracEnd(s, i) ==
    IF i + 1 <= Len(s) /\ s[i] = "." /\ IsJsonDigit(s[i + 1]) THEN SkipDigits(s, i + 1) ELSE i

ExpEnd(s, i) ==
    LET d == IF i + 1 <= Len(s) /\ s[i + 1] \in {"-", "+"} THEN i + 2 ELSE i + 1 IN
    IF i <= Len(s) /\ s[i] \in {"e", "E"} /\ d <= Len(s) /\ IsJsonDigit(s[d])
    THEN SkipDigits(s, d) ELSE i

\* the number of digits of the integer literal s[i..a-1]
Digits(s, i, a) == IF s[i] = "-" THEN a - i - 1 ELSE a - i

\* json.scanner: a match without fraction and exponent goes to int(), the rest to float()
ScanNumber(s, i) ==
    LET a == IntEnd(s, i)
        b == FracEnd(s, a)
        c == ExpEnd(s, b)
        text == SubSeq(s, i, a - 1)
    IN IF a = i THEN Fail(i, InRawDecode)
       ELSE IF c > a THEN Ok([type |-> "float", val |-> SubSeq(s, i, c - 1)], c)
       ELSE IF Digits(s, i, a) > MaxStrDigits THEN Raises("ValueError", i)
       ELSE Ok([type |-> "int", val |-> IF text = <<"-", "0">> THEN <<"0">> ELSE text], a)

\* dict(pairs): a repeated key keeps its place and takes the last value
DictPut(items, k, v) ==
    IF \E j \in 1..Len(items) : items[j].k = k
    THEN [j \in 1..Len(items) |-> IF items[j].k = k THEN [k |-> k, v |-> v] ELSE items[j]]
    ELSE Append(items, [k |-> k, v |-> v])

RECURSIVE ScanOnce(_, _, _)
RECURSIVE ScanObject(_, _, _, _)
RECURSIVE ScanArray(_, _, _, _)

\* json.decoder.JSONObject: s[i] is where a key's opening quote must be;
\* depth counts the objects and arrays open around s[i]
ScanObject(s, i, items, depth) ==
    IF i > Len(s) \/ s[i] # DQ THEN Fail(i, InScanner(depth))
    ELSE LET key == ScanString(s, i + 1, <<>>, depth) IN
    IF ~key.ok THEN key
    ELSE LET c == SkipJsonSpace(s, key.pos) IN
    IF c > Len(s) \/ s[c] # ":" THEN Fail(c, InScanner(depth))
    ELSE LET value == ScanOnce(s, SkipJsonSpace(s, c + 1), depth) IN
    IF ~value.ok THEN value
    ELSE LET e == SkipJsonSpace(s, value.pos)
             put == DictPut(items, key.val.val, value.val)
         IN
    IF e > Len(s) THEN Fail(e, InScanner(depth))
    ELSE IF s[e] = "}" THEN Ok([type |-> "dict", val |-> put], e + 1)
    ELSE IF s[e] = "," THEN ScanObject(s, SkipJsonSpace(s, e + 1), put, depth)
    ELSE Fail(e, InScanner(depth))

\* json.decoder.JSONArray: s[i] is where the next element must start
ScanArray(s, i, elems, depth) ==
    LET value == ScanOnce(s, i, depth) IN
    IF ~value.ok THEN value
    ELSE LET e == SkipJsonSpace(s, value.pos)
             put == Append(elems, value.val)
         IN
    IF e > Len(s) THEN Fail(e, InScanner(depth))
    ELSE IF s[e] = "]" THEN Ok([type |-> "list", val |-> put], e + 1)
    ELSE IF s[e] = "," THEN ScanArray(s, SkipJsonSpace(s, e + 1), put, depth)
    ELSE Fail(e, InScanner(depth))

\* json.scanner.scan_once: the value at s[i], inside depth objects and arrays
ScanOnce(s, i, depth) ==
    IF i > Len(s) THEN Fail(i, InRawDecode)
    ELSE IF s[i] = DQ THEN ScanString(s, i + 1, <<>>, depth)
    ELSE IF s[i] \in {"{", "["} /\ depth >= MaxNesting THEN Raises("RecursionError", i)
    ELSE IF s[i] = "{" THEN
        LET j == SkipJsonSpace(s, i + 1) IN
        IF j <= Len(s) /\ s[j] = "}" THEN Ok([type |-> "dict", val |-> <<>>], j + 1)
        ELSE ScanObject(s, j, <<>>, depth + 1)
    ELSE IF s[i] = "[" THEN
        LET j == SkipJsonSpace(s, i + 1) IN
        IF j <= Len(s) /\ s[j] = "]" THEN Ok([type |-> "list", val |-> <<>>], j + 1)
        ELSE ScanArray(s, j, <<>>, depth + 1)
    ELSE IF MatchAt(s, i, <<"n", "u", "l", "l">>) THEN Ok(NoValue, i + 4)
    ELSE IF MatchAt(s, i, <<"t", "r", "u", "e">>)
         THEN Ok([type |-> "bool", val |-> <<"true">>], i + 4)
    ELSE IF MatchAt(s, i, <<"f", "a", "l", "s", "e">>)
         THEN Ok([type |-> "bool", val |-> <<"false">>], i + 5)
    ELSE IF IntEnd(s, i) # i THEN ScanNumber(s, i)
    ELSE IF MatchAt(s, i, <<"N", "a", "N">>)
         THEN Constant(<<"N", "a", "N">>, i, depth)
    ELSE IF MatchAt(s, i, <<"I", "n", "f", "i", "n", "i", "t", "y">>)
         THEN Constant(<<"I", "n", "f", "i", "n", "i", "t", "y">>, i, depth)
    ELSE IF MatchAt(s, i, <<"-", "I", "n", "f", "i", "n", "i", "t", "y">>)
         THEN Constant(<<"-", "I", "n", "f", "i", "n", "i", "t", "y">>, i, depth)
    ELSE Fail(i, InRawDecode)

\* the byte order mark json.loads refuses at the start of a text
BOM == "U+FEFF"

\* json.loads: a text starting with the byte order mark is refused before the
\* decoder is called; leading and trailing whitespace allowed, anything else
\* is "Extra data"
JsonLoads(s) ==
    IF Len(s) > 0 /\ s[1] = BOM THEN Fail(1, InLoads) ELSE
    LET r == ScanOnce(s, SkipJsonSpace(s, 1), 0) IN
    IF ~r.ok THEN r
    ELSE IF SkipJsonSpace(s, r.pos) # Len(s) + 1 THEN Fail(SkipJsonSpace(s, r.pos), InDecode)
    ELSE r

-----------------------------------------------------------------------------
(* Step 5: SchemaValidator, tools.py:63-74 *)

generation_prompt == <<"g", "e", "n", "e", "r", "a", "t", "i", "o", "n", "_", "p", "r", "o", "m", "p", "t">>
evaluation_rubic == <<"e", "v", "a", "l", "u", "a", "t", "i", "o", "n", "_", "r", "u", "b", "i", "c">>
manual == <<"m", "a", "n", "u", "a", "l">>
pc_rubic == <<"p", "c", "_", "r", "u", "b", "i", "c">>
cmp_rubic == <<"c", "m", "p", "_", "r", "u", "b", "i", "c">>
slr_rubic == <<"s", "l", "r", "_", "r", "u", "b", "i", "c">>
clr_rubic == <<"c", "l", "r", "_", "r", "u", "b", "i", "c">>
ri_rubic == <<"r", "i", "_", "r", "u", "b", "i", "c">>

\* line 64
required_fields == <<generation_prompt, evaluation_rubic, manual>>

\* line 70
rubic_fields == <<pc_rubic, cmp_rubic, slr_rubic, clr_rubic, ri_rubic>>

\* whether Python's "in" is defined on the value: otherwise "f not in v" is a TypeError
SupportsIn(v) == v.type \in {"dict", "list", "str"}

\* f in v: a key of a dict, an element of a list, a substring of a str
In(f, v) ==
    CASE v.type = "dict" -> \E j \in 1..Len(v.val) : v.val[j].k = f
      [] v.type = "list" ->
            \E j \in 1..Len(v.val) : v.val[j].type = "str" /\ v.val[j].val = f
      [] v.type = "str" -> \E i \in 1..Len(v.val) : MatchAt(v.val, i, f)
      [] OTHER -> FALSE

\* lines 65, 72: [f for f in fields if f not in v]
IsAbsent(f, v) == ~In(f, v)

Missing(fields, v) == SelectSeq(fields, LAMBDA f : IsAbsent(f, v))

\* d[key] of a dict that holds key
Get(d, key) == d.val[CHOOSE j \in 1..Len(d.val) : d.val[j].k = key].v

-----------------------------------------------------------------------------
(* process_json_string as a state machine, one action per stage *)

Last(q) == q[Len(q)]

Raise(e, stage) ==
    /\ exc' = e
    /\ stages' = Append(stages, stage)
    /\ pc' = "raised"

\* tools.py:20-29
TextNormalizer ==
    /\ UNCHANGED bvars
    /\ pc = "step1"
    /\ cleaned_str' = Normalize(raw_json_str)
    /\ IF cleaned_str' = <<>>
       THEN Raise("ValueError", "normalize")
       ELSE /\ pc' = "step2"
            /\ stages' = Append(stages, "normalize")
            /\ exc' = exc
    /\ UNCHANGED <<raw_json_str, fix_str, json_data, missing, frames>>

\* tools.py:32-39
EscapeRepairer ==
    /\ UNCHANGED bvars
    /\ pc = "step2"
    /\ fix_str' = EscapeRepair(cleaned_str)
    /\ stages' = Append(stages, "escape")
    /\ pc' = "step3"
    /\ UNCHANGED <<raw_json_str, cleaned_str, json_data, missing, exc, frames>>

\* tools.py:41-48
StructuralRepairer ==
    /\ UNCHANGED bvars
    /\ pc = "step3"
    /\ fix_str' = StructuralRepair(fix_str)
    /\ stages' = Append(stages, "structural")
    /\ pc' = "step4"
    /\ UNCHANGED <<raw_json_str, cleaned_str, json_data, missing, exc, frames>>

\* tools.py:51-61: line 53 turns a json.JSONDecodeError into one with a longer
\* message; any other exception of line 52 leaves the function as it is
Parser ==
    /\ UNCHANGED bvars
    /\ pc = "step4"
    /\ LET r == JsonLoads(fix_str) IN
       IF r.ok
       THEN /\ json_data' = r.val
            /\ stages' = Append(stages, "parse")
            /\ pc' = "step5"
            /\ exc' = exc
       ELSE /\ Raise(r.err, "parse")
            /\ json_data' = json_data
    /\ UNCHANGED <<raw_json_str, cleaned_str, fix_str, missing, frames>>

\* tools.py:63-67
ValidateFields ==
    /\ UNCHANGED bvars
    /\ pc = "step5"
    /\ IF ~SupportsIn(json_data)
       THEN Raise("TypeError", "fields") /\ missing' = missing
       ELSE LET missing_fields == Missing(required_fields, json_data) IN
            IF missing_fields # <<>>
            THEN Raise("ValueError", "fields") /\ missing' = missing_fields
            ELSE /\ pc' = "step5_rubic"
                 /\ stages' = Append(stages, "fields")
                 /\ UNCHANGED <<missing, exc>>
    /\ UNCHANGED <<raw_json_str, cleaned_str, fix_str, json_data, frames>>

\* tools.py:69-76
ValidateRubric ==
    /\ UNCHANGED bvars
    /\ pc = "step5_rubic"
    /\ IF json_data.type # "dict"
       THEN Raise("AttributeError", "rubic") /\ missing' = missing
       ELSE LET rubic_data == Get(json_data, evaluation_rubic) IN
            IF ~SupportsIn(rubic_data)
            THEN Raise("TypeError", "rubic") /\ missing' = missing
            ELSE LET missing_rubic == Missing(rubic_fields, rubic_data) IN
                 IF missing_rubic # <<>>
                 THEN Raise("ValueError", "rubic") /\ missing' = missing_rubic
                 ELSE /\ pc' = "returned"
                      /\ stages' = Append(stages, "rubic")
                      /\ UNCHANGED <<missing, exc>>
    /\ UNCHANGED <<raw_json_str, cleaned_str, fix_str, json_data, frames>>

-----------------------------------------------------------------------------
(* The inputs: every short text over Alphabet, and documents of the shape   *)
(* the routine is written for (tools.py:5, tools.py:80)                     *)

MaxLen == 3

Alphabet == {DQ, " ", ",", "}", "{", "]", "[", ":", "1", "a", BS, SQ, "U+FF0C"}

RECURSIVE Texts(_)
Texts(n) ==
    IF n = 0 THEN {<<>>}
    ELSE LET shorter == Texts(n - 1) IN
         shorter \cup {Append(s, c) : s \in {t \in shorter : Len(t) = n - 1}, c \in Alphabet}

ShortTexts == Texts(MaxLen)

StrLit(s) == <<DQ>> \o s \o <<DQ>>

RECURSIVE Join(_, _)
Join(parts, sep) ==
    IF parts = <<>> THEN <<>>
    ELSE IF Len(parts) = 1 THEN parts[1]
    ELSE parts[1] \o sep \o Join(Tail(parts), sep)

Pair(k, v) == StrLit(k) \o <<":">> \o v

Obj(members, sep) == <<"{">> \o Join(members, sep) \o <<"}">>

Indices(n, S) == SelectSeq([i \in 1..n |-> i], LAMBDA i : i \in S)

\* the rubric object holding the sub-keys numbered in R, each with value v
RubricObj(R, v) ==
    LET ix == Indices(5, R) IN
    Obj([j \in 1..Len(ix) |-> Pair(rubic_fields[ix[j]], v)], <<",">>)

\* the document holding the top-level keys numbered in T
Document(T, gp, rubric, man, sep) ==
    LET vals == <<gp, rubric, man>>
        ix == Indices(3, T)
    IN Obj([j \in 1..Len(ix) |-> Pair(required_fields[ix[j]], vals[ix[j]])], sep)

Str(c) == StrLit(<<c>>)

FullRubric == RubricObj(1..5, Str("r"))

FullDocument == Document(1..3, Str("g"), FullRubric, Str("m"), <<",">>)

\* every combination of present and absent keys, at both levels
SchemaDocuments ==
    {Document(T, Str("g"), RubricObj(R, Str("r")), Str("m"), <<",">>) :
        T \in SUBSET (1..3), R \in SUBSET (1..5)}

\* valid JSON: string values that hold what the repair passes look for
ManualValues ==
    {StrLit(<<"i", "t", SQ, "s">>), StrLit(<<"a", "U+FF1A", "b">>),
     StrLit(<<"a", ",", "}">>), StrLit(<<"a", BS, BS, "n">>),
     StrLit(<<"{", "a", ":", "b">>), StrLit(<<"a", BS, "n", "b">>),
     StrLit(<<"a", ",", " ", "b">>), StrLit(<<>>), <<"2">>, <<"n", "u", "l", "l">>}

ValueDocuments ==
    {Document(1..3, Str("g"), FullRubric, v, <<",">>) : v \in ManualValues}

\* evaluation_rubic values that are not objects, or hold values that are not strings
RubricValues ==
    {<<"5">>, <<"n", "u", "l", "l">>, <<"[", "]">>, <<"{", "}">>,
     <<"[">> \o Join([j \in 1..5 |-> StrLit(rubic_fields[j])], <<",">>) \o <<"]">>,
     StrLit(Join(rubic_fields, <<" ">>)),
     RubricObj(1..5, <<"1">>), RubricObj(1..5, StrLit(<<>>))}

RubricDocuments ==
    {Document(1..3, Str("g"), r, Str("m"), <<",">>) : r \in RubricValues}

\* decoded values that are not objects but contain the three names
TopLevelValues ==
    {<<"[">> \o Join([j \in 1..3 |-> StrLit(required_fields[j])], <<",">>) \o <<"]">>,
     StrLit(StrLit(Join(required_fields, <<" ">>))),
     <<"t", "r", "u", "e">>, <<"n", "u", "l", "l">>, <<"-", "1", "2">>, <<"1", ".", "5">>}

\* near-valid JSON, of the defects the repair passes are for (tools.py:31-48)
BareDocument ==
    <<"{">> \o generation_prompt \o <<":", " ">> \o Str("g") \o <<",", " ">>
    \o evaluation_rubic \o <<" ", ":">> \o FullRubric \o <<",">>
    \o manual \o <<":">> \o Str("m") \o <<",", " ", "}">>

DefectDocuments ==
    {<<"{", DQ, "a", DQ, ":", "1", ",", "}">>,
     <<"{", "f", "o", "o", ":", " ", DQ, "b", "a", "r", DQ, "}">>,
     <<"{", DQ, "a", DQ, ":", "1", ",", ",", "}">>,
     <<"{", DQ, "a", DQ, ":", "[", "1", ",", " ", "]", ",", "\n", "}">>,
     <<"{", DQ, "a", DQ, ":", "[", "1", ",", " ", ",", "]", "}">>,
     <<"{", SQ, "a", SQ, ":", SQ, "b", SQ, "}">>,
     <<"{", DQ, "a", DQ, "U+FF1A", "U+201C", "b", "U+201D", "U+FF0C", "}">>,
     <<"{", DQ, "a", DQ, ":", DQ, "x", BS, "1", "y", DQ, "}">>,
     <<"{", DQ, "a", ",", "b", ":", "c", DQ, ":", "1", ",", " ", "d", " ", ":", "2", "}">>,
     <<"{", DQ, "a", DQ, ":", "1", ",", "b", ":", "2", ",", " ", DQ, "c", DQ, " ", ":", "3", "}">>,
     BareDocument,
     Document(1..3, Str("g"), RubricObj(1..5, <<SQ, "r", SQ>>), <<SQ, "m", SQ>>, <<",", "\n">>)}

\* json.dumps(text): the text as one JSON string literal
EscapeChar(c) ==
    CASE c = DQ -> <<BS, DQ>>
      [] c = BS -> <<BS, BS>>
      [] c = "\n" -> <<BS, "n">>
      [] OTHER -> <<c>>

Escaped(s) == Flatten([i \in 1..Len(s) |-> EscapeChar(s[i])])

\* the shape of test_json_str: a whole document wrapped as one quoted string
FixtureShape(doc) == StrLit(Escaped(doc))

FixtureDocuments ==
    {FixtureShape(FullDocument),
     FixtureShape(Document(1..3, StrLit(<<"g", " ", "h">>), FullRubric,
                           StrLit(<<"1", ".", BS, BS, "n", "2", ".">>), <<",", "\n">>))}

\* a document inside one extra layer of quotes, inside whitespace
WrappedDocuments ==
    {StrLit(FullDocument), <<" ", "\n">> \o FullDocument \o <<" ">>,
     <<" ">> \o StrLit(<<" ">> \o FullDocument \o <<"\n">>) \o <<" ">>,
     <<" ", DQ, " ", "\n", DQ, " ">>, <<"\n", "\t", " ", "\r">>}

\* a \uXXXX escape
UnicodeEscape(h1, h2, h3, h4) == <<BS, "u", h1, h2, h3, h4>>

\* texts with characters outside ASCII, control characters and \u escapes
UnicodeDocuments ==
    {<<"U+000C">>,
     <<"U+001F", DQ, "U+00A0", "U+2028", DQ, "U+0085">>,
     <<" ", "U+000C">> \o FullDocument \o <<"U+000B", " ">>,
     <<"U+3000">> \o StrLit(FullDocument) \o <<"U+3000">>,
     <<"{", DQ, "a", DQ, ":", "1", ",", "U+000C", "}">>,
     <<"[", "1", ",", "U+2003", "U+00A0", "]">>,
     <<BS, "U+FF11">>,
     <<DQ, "a", BS, "U+0663", "b", DQ>>,
     <<"{", "U+00E9", ":", "1", "}">>,
     <<"{", "U+540D", "U+79F0", ":", "1", "}">>,
     <<"{", DQ, "a", DQ, ":", "1", ",", "U+043A", "U+043B", "U+044E", "U+0447", ":", "2", "}">>,
     <<"{", "U+FF41", "U+0663", "_", "U+FF11", "U+00A0", ":", "1", "}">>,
     <<"{", "U+00D7", ":", "1", "}">>,
     <<"{", "a", "U+0060", ":", "1", "}">>,
     Replace(FullDocument, <<"n", "_", "p">>, <<"n">> \o UnicodeEscape("0", "0", "5", "f") \o <<"p">>),
     <<"{", DQ>> \o UnicodeEscape("0", "0", "4", "1") \o <<DQ, ":", "1", "}">>,
     <<"[", DQ>> \o UnicodeEscape("0", "0", "e", "9") \o UnicodeEscape("F", "f", "1", "A")
         \o UnicodeEscape("0", "0", "0", "c") \o UnicodeEscape("0", "0", "6", "0") \o <<DQ, "]">>,
     <<"[", DQ, "a", "U+000C", "b", DQ, "]">>,
     <<"[", DQ, "a", "U+0000", "b", DQ, "]">>,
     <<"[", DQ, "a", "U+001F", "b", DQ, "]">>,
     <<"[", DQ, "a", "U+007F", "U+0085", "b", DQ, "]">>,
     <<"[", DQ>> \o UnicodeEscape("d", "8", "3", "d") \o UnicodeEscape("d", "e", "0", "0") \o <<DQ, "]">>,
     <<"[", DQ>> \o UnicodeEscape("d", "8", "3", "d") \o UnicodeEscape("D", "8", "3", "D")
         \o UnicodeEscape("D", "E", "0", "0") \o UnicodeEscape("d", "e", "0", "0") \o <<DQ, "]">>,
     <<"[", DQ>> \o UnicodeEscape("d", "e", "0", "0") \o UnicodeEscape("d", "8", "3", "d") \o <<"x", DQ, "]">>,
     <<"[", DQ>> \o UnicodeEscape("d", "8", "3", "d") \o <<BS, "u", "1", "2", DQ, "]">>,
     <<"[", "1", "U+0661", "]">>,
     <<"[", "U+FF11", "]">>}

\* a run of n characters c
Run(n, c) == [k \in 1..n |-> c]

\* integer literals at and over the limit of int(), and a float over it
LongNumbers ==
    {Run(MaxStrDigits, "1"), Run(MaxStrDigits + 1, "1"),
     <<"-">> \o Run(MaxStrDigits + 1, "1"),
     Run(MaxStrDigits + 1, "1") \o <<".", "5">>,
     <<"[", "1", ",">> \o Run(MaxStrDigits + 1, "1") \o <<"x">>,
     <<"[", "x", ",">> \o Run(MaxStrDigits + 1, "1") \o <<"]">>}

\* n arrays opened around a text, and all of them closed after it
Open(n, body) == Run(n, "[") \o body

Nested(n, body) == Open(n, body) \o Run(n, "]")

\* texts with a byte order mark: at the start, after a space, inside a string,
\* after a value, between quotes the normalizer strips, before a long number
MarkedDocuments ==
    {<<BOM>>, <<BOM, "1">>, <<BOM, " ", "x">>, <<BOM, "[", "1", "]">>, <<BOM, "{", "}">>,
     <<BOM, BOM>>, <<" ", BOM, "1">>, <<"1", BOM>>, <<"[", BOM, "]">>,
     <<DQ, BOM, DQ>>, <<DQ, BOM, "1", DQ>>, <<"[", DQ, BOM, DQ, "]">>,
     <<BOM>> \o FullDocument, <<BOM>> \o Run(MaxStrDigits + 1, "1")}
    \cup {<<BOM>> \o Nested(n, <<"1">>) : n \in 0..(MaxLen + 1)}

Documents ==
    SchemaDocuments \cup ValueDocuments \cup RubricDocuments \cup TopLevelValues
    \cup DefectDocuments \cup FixtureDocuments \cup WrappedDocuments
    \cup UnicodeDocuments \cup LongNumbers \cup MarkedDocuments

Inputs == ShortTexts \cup Documents

\* what stands where the innermost value is expected: values and the decoder's errors
Bodies ==
    {<<"1">>, <<>>, <<"x">>, <<DQ, "a">>, <<DQ, "a", DQ>>, <<"1", " ", "x">>, <<"{", "x">>,
     <<"{", DQ, "a", DQ, " ", "x">>, <<"{", DQ, "a", DQ, ":", "x">>,
     <<"{", DQ, "a", DQ, ":", "1", ",", "x">>, <<DQ, BS, "q", DQ>>, <<"{", "}">>,
     <<"{", DQ, "a", DQ, ":", "[", "{", "}", "]", "}">>,
     <<"N", "a", "N">>, <<"I", "n", "f", "i", "n", "i", "t", "y">>,
     <<"-", "I", "n", "f", "i", "n", "i", "t", "y">>,
     <<"{", DQ, "a", DQ, ":", "N", "a", "N", "}">>,
     <<"1", ".", "5">>, <<"t", "r", "u", "e">>, <<"n", "u", "l", "l">>}

NestedDocuments ==
    {Open(n, b) : n \in 0..MaxLen, b \in Bodies}
    \cup {Nested(n, b) : n \in 0..(MaxLen + 1), b \in Bodies}
    \cup {Nested(n, <<"1">>) \o <<"x">> : n \in 0..MaxLen}
    \cup {FullDocument, BareDocument, Open(MaxLen - 1, Run(MaxStrDigits + 1, "1"))}

\* calls made where the interpreter's stack is nearly used up: the depths that
\* leave the scanner room for 1, 2, ... nested values
DeepCalls == {RecursionLimit - ScannerFrames - room : room \in 1..(MaxLen + 3)}

\* the texts decoded in such calls
DeepInputs == Texts(MaxLen - 2) \cup NestedDocuments \cup MarkedDocuments

-----------------------------------------------------------------------------
(* The batch driver, gen_prompts_and_rubic.py *)

CONTROL_NUM == 3
API_RETRY_TIMES == 3
API_DELAY == 2

MaxRows == 4

Min(a, b) == IF a <= b THEN a ELSE b

\* line 270
process_limit == Min(Len(requirement_list), CONTROL_NUM)

\* what the endpoint may answer: nothing, text parse_gpt_response accepts, text it rejects
Responses == {"empty", "valid", "invalid"}

\* a handler that counts the failure and leaves the loop
RoundFailed_Abort ==
    /\ processed_failed' = processed_failed + 1
    /\ idx' = idx
    /\ slept' = 0
    /\ bpc' = "done"
    /\ UNCHANGED processed_success

\* lines 311-314: the round's exception handler
RoundFailed ==
    /\ processed_failed' = processed_failed + 1
    /\ idx' = idx + 1
    /\ slept' = 0
    /\ bpc' = "loop"
    /\ UNCHANGED processed_success

\* lines 277-281: the loop header and the draw of a row
LoopNext ==
    /\ UNCHANGED pvars
    /\ bpc = "loop"
    /\ IF idx < process_limit
       THEN /\ index' \in 0..(Len(requirement_list) - 1)
            /\ bpc' = "prompt"
       ELSE /\ index' = index
            /\ bpc' = "done"
    /\ UNCHANGED <<requirement_list, idx, retry, requests, waits, response_text,
                   processed_success, processed_failed, manual_files, prompt_files, slept>>

\* lines 284-293, get_complete_prompt lines 113-114
FillPrompt ==
    /\ UNCHANGED pvars
    /\ bpc = "prompt"
    /\ IF requirement_list[index + 1]
       THEN /\ bpc' = "chat_gpt"
            /\ retry' = 0
            /\ requests' = 0
            /\ waits' = <<>>
            /\ UNCHANGED <<idx, processed_success, processed_failed, slept>>
       ELSE /\ RoundFailed
            /\ UNCHANGED <<retry, requests, waits>>
    /\ UNCHANGED <<requirement_list, index, response_text, manual_files, prompt_files>>

\* chat_gpt lines 57-70: a request that is answered
RequestAnswered ==
    /\ UNCHANGED pvars
    /\ bpc = "chat_gpt"
    /\ retry < API_RETRY_TIMES
    /\ requests' = requests + 1
    /\ response_text' \in Responses
    /\ bpc' = "response"
    /\ UNCHANGED <<requirement_list, idx, index, retry, waits, processed_success,
                   processed_failed, manual_files, prompt_files, slept>>

\* a failed request followed by the same wait whatever the retry
RequestFailed_FixedWait ==
    /\ UNCHANGED pvars
    /\ bpc = "chat_gpt"
    /\ retry < API_RETRY_TIMES
    /\ requests' = requests + 1
    /\ waits' = Append(waits, API_DELAY)
    /\ slept' = slept + API_DELAY
    /\ retry' = retry + 1
    /\ UNCHANGED <<requirement_list, idx, index, response_text, processed_success,
                   processed_failed, manual_files, prompt_files, bpc>>

\* chat_gpt lines 57-73: a request that fails, and the wait after it
RequestFailed ==
    /\ UNCHANGED pvars
    /\ bpc = "chat_gpt"
    /\ retry < API_RETRY_TIMES
    /\ requests' = requests + 1
    /\ waits' = Append(waits, API_DELAY * (retry + 1))
    /\ slept' = slept + API_DELAY * (retry + 1)
    /\ retry' = retry + 1
    /\ UNCHANGED <<requirement_list, idx, index, response_text, processed_success,
                   processed_failed, manual_files, prompt_files, bpc>>

\* chat_gpt line 75, caught at line 311
RetriesExhausted ==
    /\ UNCHANGED pvars
    /\ bpc = "chat_gpt"
    /\ retry = API_RETRY_TIMES
    /\ RoundFailed
    /\ UNCHANGED <<requirement_list, index, retry, requests, waits, response_text,
                   manual_files, prompt_files>>

\* lines 297-301: the empty-response check and parse_gpt_response
ParseResponse ==
    /\ UNCHANGED pvars
    /\ bpc = "response"
    /\ IF response_text = "valid"
       THEN /\ bpc' = "save_manual"
            /\ UNCHANGED <<idx, processed_success, processed_failed, slept>>
       ELSE RoundFailed
    /\ UNCHANGED <<requirement_list, index, retry, requests, waits, response_text,
                   manual_files, prompt_files>>

\* save_gpt_response lines 239-246: the write succeeds or raises
SaveManual ==
    /\ UNCHANGED pvars
    /\ bpc = "save_manual"
    /\ \/ /\ manual_files' = manual_files \cup {index}
          /\ bpc' = "save_prompt"
          /\ UNCHANGED <<idx, processed_success, processed_failed, slept>>
       \/ /\ RoundFailed
          /\ manual_files' = manual_files
    /\ UNCHANGED <<requirement_list, index, retry, requests, waits, response_text, prompt_files>>

\* save_gpt_response lines 249-255
SavePrompt ==
    /\ UNCHANGED pvars
    /\ bpc = "save_prompt"
    /\ \/ /\ prompt_files' = prompt_files \cup {index}
          /\ bpc' = "count"
          /\ UNCHANGED <<idx, processed_success, processed_failed, slept>>
       \/ /\ RoundFailed
          /\ prompt_files' = prompt_files
    /\ UNCHANGED <<requirement_list, index, retry, requests, waits, response_text, manual_files>>

\* lines 307-309
CountAndDelay ==
    /\ UNCHANGED pvars
    /\ bpc = "count"
    /\ processed_success' = processed_success + 1
    /\ slept' = IF idx < process_limit - 1 THEN API_DELAY ELSE 0
    /\ idx' = idx + 1
    /\ bpc' = "loop"
    /\ UNCHANGED <<requirement_list, index, retry, requests, waits, response_text,
                   processed_failed, manual_files, prompt_files>>

-----------------------------------------------------------------------------

PipelineIdle ==
    /\ frames = 0
    /\ raw_json_str = <<>>
    /\ cleaned_str = <<>>
    /\ fix_str = <<>>
    /\ json_data = NoValue
    /\ missing = <<>>
    /\ exc = "none"
    /\ stages = <<>>
    /\ pc = "idle"

DriverIdle ==
    /\ requirement_list = <<>>
    /\ idx = 0
    /\ index = 0
    /\ retry = 0
    /\ requests = 0
    /\ waits = <<>>
    /\ response_text = "empty"
    /\ processed_success = 0
    /\ processed_failed = 0
    /\ manual_files = {}
    /\ prompt_files = {}
    /\ slept = 0
    /\ bpc = "idle"

\* process_json_string called on one input: from a module's top level, as in
\* tools.py:80-94, or deep in the caller's recursion, in a program that has
\* called it before (the patterns of lines 36-48 are compiled).  The depths are
\* those that leave the substitutions of lines 36-48 the calls they make.
Init ==
    /\ \/ raw_json_str \in Inputs /\ frames = 1
       \/ raw_json_str \in DeepInputs /\ frames \in DeepCalls
    /\ cleaned_str = <<>>
    /\ fix_str = <<>>
    /\ json_data = NoValue
    /\ missing = <<>>
    /\ exc = "none"
    /\ stages = <<>>
    /\ pc = "step1"
    /\ DriverIdle

Next ==
    \/ TextNormalizer
    \/ EscapeRepairer
    \/ StructuralRepairer
    \/ Parser
    \/ ValidateFields
    \/ ValidateRubric

Spec == Init /\ [][Next]_vars

RECURSIVE Rows(_)
Rows(n) ==
    IF n = 0 THEN {<<>>}
    ELSE LET shorter == Rows(n - 1) IN
         shorter \cup {Append(r, b) : r \in {q \in shorter : Len(q) = n - 1}, b \in BOOLEAN}

\* the driver started on a spreadsheet of up to MaxRows valid rows (lines 265-275)
BatchInit ==
    /\ PipelineIdle
    /\ requirement_list \in Rows(MaxRows)
    /\ idx = 0
    /\ index = 0
    /\ retry = 0
    /\ requests = 0
    /\ waits = <<>>
    /\ response_text = "empty"
    /\ processed_success = 0
    /\ processed_failed = 0
    /\ manual_files = {}
    /\ prompt_files = {}
    /\ slept = 0
    /\ bpc = "loop"

BatchNext ==
    \/ LoopNext
    \/ FillPrompt
    \/ RequestAnswered
    \/ RequestFailed
    \/ RetriesExhausted
    \/ ParseResponse
    \/ SaveManual
    \/ SavePrompt
    \/ CountAndDelay

BatchSpec == BatchInit /\ [][BatchNext]_vars

-----------------------------------------------------------------------------
(* Vocabulary of the claims *)

Terminal == pc \in {"returned", "raised"}

Ran(stage) == \E j \in 1..Len(stages) : stages[j] = stage

Range(q) == {q[j] : j \in 1..Len(q)}

KeysOf(v) == {v.val[j].k : j \in 1..Len(v.val)}

\* the staged errors of the specification
EmptyInputError == pc = "raised" /\ exc = "ValueError" /\ Last(stages) = "normalize"
JsonDecodeError == pc = "raised" /\ exc = "json.JSONDecodeError" /\ Last(stages) = "parse"
MissingFieldError == pc = "raised" /\ exc = "ValueError" /\ Last(stages) = "fields"
MissingRubricFieldError == pc = "raised" /\ exc = "ValueError" /\ Last(stages) = "rubic"

IsStringAt(v, key) == key \in KeysOf(v) /\ Get(v, key).type = "str"

IsNonEmptyStringAt(v, key) == IsStringAt(v, key) /\ Get(v, key).val # <<>>

\* RubricSchema of the specification: the shape the returned value is promised to have
SatisfiesSchema(v) ==
    /\ v.type = "dict"
    /\ IsStringAt(v, generation_prompt)
    /\ IsStringAt(v, manual)
    /\ evaluation_rubic \in KeysOf(v)
    /\ Get(v, evaluation_rubic).type = "dict"
    /\ \A f \in Range(rubic_fields) : IsStringAt(Get(v, evaluation_rubic), f)

\* deep equality of decoded values: dicts by key, lists by position
RECURSIVE DeepEqual(_, _)
DeepEqual(a, b) ==
    /\ a.type = b.type
    /\ CASE a.type = "dict" ->
              /\ KeysOf(a) = KeysOf(b)
              /\ \A key \in KeysOf(a) : DeepEqual(Get(a, key), Get(b, key))
         [] a.type = "list" ->
              /\ Len(a.val) = Len(b.val)
              /\ \A j \in 1..Len(a.val) : DeepEqual(a.val[j], b.val[j])
         [] OTHER -> a.val = b.val

-----------------------------------------------------------------------------
(* C1: whenever process_json_string returns, the returned value is a       *)
(* mapping holding generation_prompt and manual as strings and             *)
(* evaluation_rubic as a mapping of the five sub-keys to strings.          *)
(* The code checks only that the names are contained, not the types.       *)
C1_ReturnsSchemaShapedValue == pc = "returned" => SatisfiesSchema(json_data)

(* C2: when process_json_string does not return, the failure is one of the *)
(* four staged errors: empty input, JSON decode error, missing field,      *)
(* missing rubric field, and no other; also for decoded values that are    *)
(* not objects and rubric values that are not objects.                     *)
C2_OnlyStagedErrors ==
    pc = "raised" =>
        \/ EmptyInputError
        \/ JsonDecodeError
        \/ MissingFieldError
        \/ MissingRubricFieldError

(* C3: on input that is already valid JSON and satisfies the schema, the   *)
(* routine returns a value deep-equal to json.loads of the unmodified      *)
(* input.                                                                  *)
C3_ValidJsonUnchanged ==
    (Terminal /\ JsonLoads(raw_json_str).ok /\ SatisfiesSchema(JsonLoads(raw_json_str).val))
        => /\ pc = "returned"
           /\ DeepEqual(json_data, JsonLoads(raw_json_str).val)

(* C4: on a document wrapped as one quoted string with its inner quotes    *)
(* and newlines backslash-escaped (the shape of test_json_str), holding    *)
(* every required field, the routine returns a mapping with non-empty      *)
(* generation_prompt and manual and exactly the five rubric sub-keys, each *)
(* a non-empty string.                                                     *)
C4_FixtureShapeParses ==
    (Terminal /\ raw_json_str \in FixtureDocuments)
        => /\ pc = "returned"
           /\ json_data.type = "dict"
           /\ IsNonEmptyStringAt(json_data, generation_prompt)
           /\ IsNonEmptyStringAt(json_data, manual)
           /\ evaluation_rubic \in KeysOf(json_data)
           /\ Get(json_data, evaluation_rubic).type = "dict"
           /\ KeysOf(Get(json_data, evaluation_rubic)) = Range(rubic_fields)
           /\ \A f \in Range(rubic_fields) :
                  IsNonEmptyStringAt(Get(json_data, evaluation_rubic), f)

-----------------------------------------------------------------------------
(* C5: schema validation reports every absent key of the first failing     *)
(* level.  For any decoded mapping: if any top-level key is absent the     *)
(* failure is the missing-field error listing exactly the absent top-level *)
(* keys, whatever the rubric holds; if none is absent and any of the five  *)
(* rubric sub-keys is absent, the failure is the missing-rubric-field      *)
(* error listing exactly the absent sub-keys.  A mapping missing only      *)
(* manual yields [manual]; a rubric missing only ri_rubic yields           *)
(* [ri_rubic].                                                             *)
(* The code tests the sub-keys with "in" on whatever evaluation_rubic      *)
(* holds (line 72): a value that is no mapping has none of the sub-keys,   *)
(* and is not reported.                                                    *)

\* the keys a decoded value holds: a value that is no mapping holds none
MappingKeys(v) == IF v.type = "dict" THEN KeysOf(v) ELSE {}

AbsentFrom(fields, v) == {f \in Range(fields) : f \notin MappingKeys(v)}

ListsExactly(absent) == Range(missing) = absent /\ Len(missing) = Cardinality(absent)

C5_AllAbsentKeysReported ==
    (json_data.type = "dict" /\ Terminal /\ Ran("parse")) =>
        LET top == AbsentFrom(required_fields, json_data) IN
        IF top # {}
        THEN /\ MissingFieldError
             /\ ListsExactly(top)
             /\ (top = {manual} => missing = <<manual>>)
        ELSE LET sub == AbsentFrom(rubic_fields, Get(json_data, evaluation_rubic))
             IN sub # {} =>
                    /\ MissingRubricFieldError
                    /\ ListsExactly(sub)
                    /\ (sub = {ri_rubic} => missing = <<ri_rubic>>)

-----------------------------------------------------------------------------
(* C6: an input that is empty after TextNormalizer (empty, whitespace      *)
(* only, or one pair of quotes around whitespace) fails with the           *)
(* empty-input error, and no later stage runs: nothing is repaired,        *)
(* decoded or validated.                                                   *)

\* whitespace, with at most one pair of double quotes in it
IsBlankInput(s) ==
    /\ \A j \in 1..Len(s) : s[j] = DQ \/ IsSpace(s[j])
    /\ Cardinality({j \in 1..Len(s) : s[j] = DQ}) \in {0, 2}

C6_EmptyInputStopsAtOnce ==
    (pc # "step1" /\ (IsBlankInput(raw_json_str) \/ cleaned_str = <<>>)) =>
        /\ EmptyInputError
        /\ stages = <<"normalize">>
        /\ cleaned_str = <<>>
        /\ fix_str = <<>>
        /\ json_data = NoValue
        /\ missing = <<>>
        /\ ~ENABLED Next

C6_Witness ==
    /\ raw_json_str = <<" ", DQ, " ", "\n", DQ, " ">>
    /\ EmptyInputError

-----------------------------------------------------------------------------
(* C7: TextNormalizer is idempotent: N(N(x)) = N(x) for every x.           *)
(* cleaned_str is N(raw_json_str) once the stage has run.                  *)
C7_NormalizeIdempotent ==
    pc # "step1" => Normalize(cleaned_str) = cleaned_str

(* C7, amended: N(N(x)) = N(x) for every x whose normalized text N(x) does *)
(* not both begin and end with a double quote.                             *)

OuterQuoted(s) == s # <<>> /\ s[1] = DQ /\ s[Len(s)] = DQ

C7_IdempotentWithoutOuterQuotes ==
    (pc # "step1" /\ ~OuterQuoted(cleaned_str)) => Normalize(cleaned_str) = cleaned_str

\* a layer of quotes and whitespace was stripped, and the result has none left
C7_Witness ==
    /\ raw_json_str = <<" ">> \o StrLit(<<" ">> \o FullDocument \o <<"\n">>) \o <<" ">>
    /\ cleaned_str = FullDocument
    /\ ~OuterQuoted(cleaned_str)

-----------------------------------------------------------------------------
(* C8: StructuralRepairer removes every comma that immediately precedes a  *)
(* closing brace or bracket, optionally separated by whitespace: its       *)
(* output contains no comma followed only by whitespace and then } or ],   *)
(* and {"a":1,} becomes text that decodes to the mapping a -> 1.           *)

\* a comma at i, then whitespace only, then } or ]
C8_CommaBeforeCloseAt(s, i) ==
    /\ CharAt(s, i) = ","
    /\ CharAt(s, SkipSpace(s, i + 1)) \in {"}", "]"}

C8_CommaBeforeClose(s) == \E i \in 1..Len(s) : C8_CommaBeforeCloseAt(s, i)

C8_Sample == <<"{", DQ, "a", DQ, ":", "1", ",", "}">>

C8_SampleDecodes ==
    raw_json_str = C8_Sample =>
        /\ Ran("structural") => fix_str = <<"{", DQ, "a", DQ, ":", "1", "}">>
        /\ Ran("parse") =>
              /\ exc # "json.JSONDecodeError"
              /\ json_data = [type |-> "dict",
                              val |-> <<[k |-> <<"a">>,
                                         v |-> [type |-> "int", val |-> <<"1">>]]>>]

C8_NoCommaBeforeClose ==
    /\ pc = "step4" => ~C8_CommaBeforeClose(fix_str)
    /\ C8_SampleDecodes

(* C8, amended: the output contains no comma followed only by whitespace   *)
(* and then } or ], for every input in which no closing brace or bracket   *)
(* is preceded by two or more commas separated only by whitespace; one     *)
(* comma is removed per closing character.                                 *)

\* a comma at i, then whitespace only, then a comma before a closing character
C8_CommaRunBeforeClose(s) ==
    \E i \in 1..Len(s) :
        /\ s[i] = ","
        /\ C8_CommaBeforeCloseAt(s, SkipSpace(s, i + 1))

\* the text StructuralRepairer is given
C8_Input == EscapeRepair(cleaned_str)

C8_SingleCommasRemoved ==
    /\ pc = "step4" =>
           LET s == C8_Input IN
           ~C8_CommaRunBeforeClose(s) => ~C8_CommaBeforeClose(fix_str)
    /\ C8_SampleDecodes

C8_Witness ==
    /\ raw_json_str = C8_Sample
    /\ C8_CommaBeforeClose(C8_Input)
    /\ ~C8_CommaRunBeforeClose(C8_Input)
    /\ Ran("parse")
    /\ KeysOf(json_data) = {<<"a">>}

-----------------------------------------------------------------------------
(* C9: StructuralRepairer wraps in double quotes every object key written  *)
(* without quotes (a word-character run that follows an opening brace or a *)
(* comma, with optional whitespace, and is followed by optional whitespace *)
(* and a colon) and leaves keys that are already double-quoted unchanged;  *)
(* {foo: "bar"} becomes exactly {"foo": "bar"}.                            *)

\* a word-character run starts at j, after { or , and before :
C9_BareKey(s, j) ==
    /\ IsWord(CharAt(s, j))
    /\ ~IsWord(CharAt(s, j - 1))
    /\ CharAt(s, SkipSpaceBack(s, j - 1)) \in {"{", ","}
    /\ CharAt(s, SkipSpace(s, SkipWord(s, j))) = ":"

C9_BareKeys(s) == {j \in 1..Len(s) : C9_BareKey(s, j)}

\* the index of the first double quote at or after i (Len(s) + 1: none)
RECURSIVE C9_NextQuote(_, _)
C9_NextQuote(s, i) ==
    IF i <= Len(s) /\ s[i] # DQ THEN C9_NextQuote(s, i + 1) ELSE i

\* a double-quoted key starts at q: quote, text, quote, after { or , and before :
C9_QuotedKey(s, q) ==
    /\ s[q] = DQ
    /\ CharAt(s, SkipSpaceBack(s, q - 1)) \in {"{", ","}
    /\ C9_NextQuote(s, q + 1) <= Len(s)
    /\ CharAt(s, SkipSpace(s, C9_NextQuote(s, q + 1) + 1)) = ":"

\* the quoted key that starts at q is a run of word characters
C9_WordKey(s, q) ==
    \A k \in (q + 1)..(C9_NextQuote(s, q + 1) - 1) : IsWord(s[k])

\* the text the key-quoting pass is given
C9_Input == RemoveTrailingCommas(EscapeRepair(cleaned_str))

\* the quoted key that starts at q in s stands in t as it was, behind the
\* quotes put around the bare keys of s, which start at the indices in bare
C9_KeyKept(s, bare, t, q) ==
    LET from == q + 2 * Cardinality({j \in bare : j < q})
        n == C9_NextQuote(s, q + 1) - q
    IN  /\ from + n <= Len(t)
        /\ SubSeq(t, from, from + n) = SubSeq(s, q, q + n)

C9_Sample == <<"{", "f", "o", "o", ":", " ", DQ, "b", "a", "r", DQ, "}">>

C9_SampleQuoted ==
    (raw_json_str = C9_Sample /\ Ran("structural")) =>
        fix_str = <<"{", DQ, "f", "o", "o", DQ, ":", " ", DQ, "b", "a", "r", DQ, "}">>

C9_AllBareKeysQuoted == pc = "step4" => C9_BareKeys(fix_str) = {}

C9_QuotedKeysUnchanged ==
    /\ C9_AllBareKeysQuoted
    /\ pc = "step4" =>
           LET s == C9_Input
               bare == C9_BareKeys(s)
           IN  \A q \in 1..Len(s) :
                   C9_QuotedKey(s, q) => C9_KeyKept(s, bare, fix_str, q)
    /\ C9_SampleQuoted

(* C9, amended: every key written without quotes is wrapped in double      *)
(* quotes, two quotes per such key and nothing else put in or taken out,   *)
(* and every already double-quoted key that is a run of word characters is *)
(* unchanged; {foo: "bar"} becomes exactly {"foo": "bar"}.                 *)

C9_Unquoted(s) == SelectSeq(s, LAMBDA c : c \notin {DQ, SQ})

C9_WordKeysUnchanged ==
    /\ C9_AllBareKeysQuoted
    /\ pc = "step4" =>
           LET s == C9_Input
               bare == C9_BareKeys(s)
           IN  /\ Len(fix_str) = Len(s) + 2 * Cardinality(bare)
               /\ C9_Unquoted(fix_str) = C9_Unquoted(s)
               /\ \A q \in 1..Len(s) :
                      (C9_QuotedKey(s, q) /\ C9_WordKey(s, q)) =>
                          C9_KeyKept(s, bare, fix_str, q)
    /\ C9_SampleQuoted

\* {"a":1,b:2, "c" :3}: a bare key between two quoted ones
C9_Witness ==
    /\ raw_json_str = <<"{", DQ, "a", DQ, ":", "1", ",", "b", ":", "2", ",", " ",
                        DQ, "c", DQ, " ", ":", "3", "}">>
    /\ pc = "step4"
    /\ C9_BareKeys(C9_Input) = {8}
    /\ C9_QuotedKey(C9_Input, 2) /\ C9_QuotedKey(C9_Input, 13)
    /\ fix_str = <<"{", DQ, "a", DQ, ":", "1", ",", DQ, "b", DQ, ":", "2", ",", " ",
                   DQ, "c", DQ, " ", ":", "3", "}">>

-----------------------------------------------------------------------------
(* C10: the batch driver keeps a fixed delay between consecutive network   *)
(* calls: it sleeps API_DELAY between the end of processing record i and   *)
(* the chat_gpt call for record i+1, whatever the outcome of record i, and *)
(* no delay follows the last record.                                       *)
(* slept is the time slept since the last record was finished.             *)

\* the first request of a record that is not the first of the batch
C10_FirstRequestOfLaterRecord == bpc = "chat_gpt" /\ retry = 0 /\ idx >= 1

C10_DelayBetweenRecords ==
    /\ C10_FirstRequestOfLaterRecord => slept = API_DELAY
    /\ bpc = "done" => slept = 0

-----------------------------------------------------------------------------
(* C11: chat_gpt is a bounded retry loop.  One call sends at most          *)
(* API_RETRY_TIMES requests; it returns the response of the first request  *)
(* that succeeds and sends none after it; it raises only after exactly     *)
(* API_RETRY_TIMES failed requests in a row; after the k-th failed request *)
(* it waits API_DELAY * k, so the waits strictly increase.                 *)

\* chat_gpt has returned and the round is working on its response
C11_Returned == bpc \in {"response", "save_manual", "save_prompt", "count"}

C11_BoundedRetryBackoff ==
    /\ requests <= API_RETRY_TIMES
    /\ \A k \in 1..Len(waits) : waits[k] = API_DELAY * k
    /\ \A k \in 2..Len(waits) : waits[k] > waits[k - 1]
    \* inside the call every request so far has failed and was followed by its wait
    /\ bpc = "chat_gpt" => requests = Len(waits) /\ retry = requests
    \* the answered request is the first that succeeded and the last that was sent
    /\ C11_Returned => requests = Len(waits) + 1
    \* the call raises after API_RETRY_TIMES failures and not before
    /\ ENABLED RetriesExhausted <=>
           (bpc = "chat_gpt" /\ requests = API_RETRY_TIMES /\ Len(waits) = API_RETRY_TIMES)
    /\ (bpc = "chat_gpt" /\ requests = API_RETRY_TIMES) =>
           ~ENABLED RequestAnswered /\ ~ENABLED RequestFailed

\* three requests failed, the three waits were made, and the call is about to raise
C11_Witness ==
    /\ bpc = "chat_gpt"
    /\ requests = API_RETRY_TIMES
    /\ waits = <<API_DELAY, 2 * API_DELAY, 3 * API_DELAY>>
    /\ ENABLED RetriesExhausted

-----------------------------------------------------------------------------
(* C12: a failure while processing one record never aborts the batch: the  *)
(* driver skips the record and goes on with the next.  At every point of   *)
(* the loop processed_success + processed_failed is the number of records  *)
(* finished, each record is counted exactly once, a record is counted as a *)
(* success only after both its manual file and its JSON file were written, *)
(* and when the loop ends processed_success + processed_failed =           *)
(* process_limit = min(number of valid rows, CONTROL_NUM).                 *)

C12_Counted == processed_success + processed_failed

C12_CountersMatchRounds ==
    /\ C12_Counted = idx
    /\ idx <= process_limit
    /\ process_limit = Min(Len(requirement_list), CONTROL_NUM)
    \* a record is in work only while records remain; the loop ends after the last one
    /\ bpc \notin {"loop", "done"} => idx < process_limit
    /\ bpc = "done" => idx = process_limit /\ C12_Counted = process_limit
    \* the loop is never stuck before its end
    /\ bpc # "done" => ENABLED BatchNext

\* one step of the driver
C12_RecordCountedOnce ==
    /\ idx' # idx =>
           /\ idx' = idx + 1
           /\ C12_Counted' = C12_Counted + 1
           /\ bpc' = "loop"
    /\ C12_Counted' # C12_Counted => idx' = idx + 1
    /\ processed_failed' # processed_failed =>
           /\ processed_failed' = processed_failed + 1
           /\ processed_success' = processed_success
    /\ processed_success' # processed_success =>
           /\ processed_success' = processed_success + 1
           /\ processed_failed' = processed_failed
           /\ index \in manual_files
           /\ index \in prompt_files

C12_EveryRecordCountedOnce ==
    [](C12_CountersMatchRounds) /\ [][C12_RecordCountedOnce]_vars

\* a batch cut to CONTROL_NUM records ended with successes and failures
C12_Witness ==
    /\ bpc = "done"
    /\ Len(requirement_list) > CONTROL_NUM
    /\ processed_success >= 1
    /\ processed_failed >= 1
    /\ C12_Counted = CONTROL_NUM
    /\ prompt_files # {}

=============================================================================
